---- MODULE Spec2Model ----
(***************************************************************************)
(* A model of profiler.py (datorr2/snort-rule-profiler): parseMessages     *)
(* reads a syslog-style input, separates the lines by Snort process id,    *)
(* keeps the streams that show the rule-profiling header, parses the       *)
(* twelve-column rows, averages them per signature and prints a report     *)
(* sorted by mean rank.                                                    *)
(*                                                                         *)
(* Text is modelled at the level of space-separated tokens.  A token is a  *)
(* record [k, t]: its kind and its characters.  Characters are codes:      *)
(* 0..9 the digits, Colon and Dot.  Dictionaries are insertion-ordered     *)
(* (Python 3.7+): a dictionary is a sequence of entries.  Floats are       *)
(* counted in quarters (every decimal of the input is a multiple of 0.25,  *)
(* so every sum is exact in binary floating point) and rounded values in   *)
(* tenths.  round() works on the binary double nearest to the mean: a mean *)
(* halfway between two tenths goes to the even tenth when the double holds *)
(* it exactly, and to the side on which the double lies when not.          *)
(* Spec reads headers and rows of two processes, SpecRows reads rows that  *)
(* fit the row pattern and rows that nearly fit it, SpecMeans reads longer *)
(* inputs of rows of one signature.                                        *)
(***************************************************************************)
EXTENDS Integers, Sequences, FiniteSets, TLC

VARIABLES pc, fn, input, fh, logStreamList, logStreams,
          statsTable, avgStatsTable, out, err, exc

vars == <<pc, fn, input, fh, logStreamList, logStreams,
          statsTable, avgStatsTable, out, err, exc>>

\* ---------------------------------------------------------------- bounds
\* The longest input, in lines.
MaxLines == 4

\* The longest input of SpecMeans, in lines.
MaxMeanLines == 7

\* ------------------------------------------------------------ characters
Colon == 10
Dot == 11
\* any character that is no digit, no dot, no colon and no space
Other == 12

\* ---------------------------------------------------------------- tokens
\* "snort[<d>]:", the syslog tag with the process id d
TagTok(d) == [k |-> "tag", t |-> d]
\* the literal "Rule Profile Statistics (all rules)"
Hdr == [k |-> "hdr", t |-> <<>>]
\* a run of digits
IntTok(d) == [k |-> "int", t |-> d]
\* digits "." digits
DecTok(d, f) == [k |-> "dec", t |-> d \o <<Dot>> \o f]
\* digits and then other characters, as "2abc"
MixTok(d) == [k |-> "mix", t |-> d \o <<Other>>]
\* any other word, one that does not begin with a digit
Word == [k |-> "word", t |-> <<>>]
\* white space at the end of the line
Ws == [k |-> "ws", t |-> <<>>]

\* ------------------------------------------------------- text and numbers
RECURSIVE DigitsToNat(_)
\* int("0100") = 100
DigitsToNat(d) ==
    IF d = <<>> THEN 0
    ELSE 10 * DigitsToNat(SubSeq(d, 1, Len(d) - 1)) + d[Len(d)]

RECURSIVE Pow10(_)
Pow10(n) == IF n = 0 THEN 1 ELSE 10 * Pow10(n - 1)

\* the position of the first Dot of a text, 0 when there is none
DotPos(t) ==
    IF \E i \in 1..Len(t) : t[i] = Dot
    THEN CHOOSE i \in 1..Len(t) : t[i] = Dot /\ \A j \in 1..(i - 1) : t[j] # Dot
    ELSE 0

\* the digits a (\d+) group takes from the start of a text
IntPart(t) ==
    LET stops == {i \in 1..Len(t) : t[i] > 9}
    IN  IF stops = {} THEN t
        ELSE SubSeq(t, 1, (CHOOSE i \in stops : \A j \in stops : i <= j) - 1)

\* float(text), in quarters
Float(t) ==
    IF DotPos(t) = 0 THEN 4 * DigitsToNat(t)
    ELSE LET f == SubSeq(t, DotPos(t) + 1, Len(t))
         IN  4 * DigitsToNat(IntPart(t)) + (4 * DigitsToNat(f)) \div Pow10(Len(f))

RECURSIVE Sum(_)
\* sum(list)
Sum(s) == IF s = <<>> THEN 0 ELSE Sum(Tail(s)) + Head(s)

\* the mean cut off after the first decimal instead of rounded
Round1Floor(q, n) == (10 * q) \div (4 * n)

RECURSIVE Pow2Mod20(_)
\* 2^k modulo 20
Pow2Mod20(k) == IF k = 0 THEN 1 ELSE (2 * Pow2Mod20(k - 1)) % 20

RECURSIVE Exp2(_, _)
\* the binary exponent of num / den: the e with 2^e <= num / den < 2^(e+1)
Exp2(num, den) ==
    IF num >= 2 * den THEN Exp2(num, 2 * den) + 1
    ELSE IF num < den THEN Exp2(2 * num, den) - 1
    ELSE 0

\* where the double nearest to m / 20 lies: the remainder, in twentieths of
\* the unit in the last of its 53 bits, that the double leaves out.  0: the
\* double is m / 20; below 10: the double is smaller; above 10: it is larger
DoubleRest(m) == ((m % 20) * Pow2Mod20(52 - Exp2(m, 20))) % 20

\* round(q / n, 1) for a sum of q quarters over n values, in tenths.  The
\* quotient is the double nearest to q / (4 n), and round() rounds that double
\* correctly: only a mean halfway between two tenths depends on the double
Round1(q, n) ==
    LET num == 10 * q
        den == 4 * n
        lo  == num \div den
        r   == num % den
    IN  IF 2 * r < den THEN lo
        ELSE IF 2 * r > den THEN lo + 1
        ELSE LET rest == DoubleRest(2 * lo + 1)
             IN  IF rest = 0 THEN (IF lo % 2 = 0 THEN lo ELSE lo + 1)
                 ELSE IF rest < 10 THEN lo
                 ELSE lo + 1

\* --------------------------------------------------------------- patterns
\* scanHeader.search(line)
scanHeader(line) == \E i \in 1..Len(line) : line[i].k = "hdr"

\* scanPid.match(line): <<pid>> of the last tag of the line, <<>> when no tag
scanPid(line) ==
    LET tags == {i \in 1..Len(line) : line[i].k = "tag"}
    IN  IF tags = {} THEN <<>>
        ELSE <<line[CHOOSE i \in tags : \A j \in tags : j <= i].t>>

\* the pattern anchored at the end of the line, the twelfth field an integer
FieldsAtAnchored(line, i) ==
    /\ line[i].k = "tag"
    /\ i + 12 = Len(line)
    /\ \A j \in 1..8 : line[i + j].k = "int"
    /\ \A j \in 9..11 : line[i + j].k = "dec"
    /\ line[i + 12].k = "int"

\* the twelve fields after the tag at position i fit the pattern: the first
\* eleven are whole tokens, the twelfth has only to begin with digits
FieldsAt(line, i) ==
    /\ line[i].k = "tag"
    /\ i + 12 <= Len(line)
    /\ \A j \in 1..8 : line[i + j].k = "int"
    /\ \A j \in 9..11 : line[i + j].k = "dec"
    /\ line[i + 12].k \in {"int", "dec", "mix"}

\* scanStatLine.match(line): the twelve groups, <<>> when there is no match
scanStatLine(line) ==
    LET at == {i \in 1..Len(line) : FieldsAt(line, i)}
    IN  IF at = {} THEN <<>>
        ELSE LET i == CHOOSE a \in at : \A b \in at : b <= a
             IN  [j \in 1..12 |->
                    IF j = 12 THEN IntPart(line[i + j].t) ELSE line[i + j].t]

RECURSIVE rstrip(_)
\* line.rstrip()
rstrip(line) ==
    IF line # <<>> /\ line[Len(line)].k = "ws"
    THEN rstrip(SubSeq(line, 1, Len(line) - 1))
    ELSE line

\* ------------------------------------------------- the read loop (89-99)
\* pid in logStreams
HasStream(streams, pid) == \E i \in 1..Len(streams) : streams[i].pid = pid

\* the text put at the head of the stream
AppendLineFront(streams, pid, text) ==
    IF HasStream(streams, pid)
    THEN [i \in 1..Len(streams) |->
            IF streams[i].pid = pid
            THEN [streams[i] EXCEPT !.lines = <<text>> \o @]
            ELSE streams[i]]
    ELSE Append(streams, [pid |-> pid, lines |-> <<text>>])

\* logStreams[pid].append(text), after logStreams[pid] = [] for a new pid
AppendLine(streams, pid, text) ==
    IF HasStream(streams, pid)
    THEN [i \in 1..Len(streams) |->
            IF streams[i].pid = pid
            THEN [streams[i] EXCEPT !.lines = Append(@, text)]
            ELSE streams[i]]
    ELSE Append(streams, [pid |-> pid, lines |-> <<text>>])

\* logStreamList after one line
NextStreamList(list, line) ==
    LET m == scanPid(line)
    IN  IF m # <<>> /\ scanHeader(line) THEN Append(list, m[1]) ELSE list

\* the eligibility test left out: every line with a process id is kept
NextStreamsUnfiltered(list, streams, line) ==
    LET m == scanPid(line)
    IN  IF m # <<>> THEN AppendLine(streams, m[1], rstrip(line)) ELSE streams

\* only the process that showed the header last is kept
NextStreamsLatest(list, streams, line) ==
    LET m == scanPid(line)
    IN  IF m # <<>> /\ list # <<>> /\ list[Len(list)] = m[1]
        THEN AppendLine(streams, m[1], rstrip(line))
        ELSE streams

\* logStreams after one line, list being logStreamList after that line
NextStreams(list, streams, line) ==
    LET m == scanPid(line)
    IN  IF m # <<>> /\ (\E i \in 1..Len(list) : list[i] = m[1])
        THEN AppendLine(streams, m[1], rstrip(line))
        ELSE streams

RECURSIVE ReadAll(_, _, _)
\* the whole loop "for line in fh": <<logStreamList, logStreams>> at its end
ReadAll(list, streams, lines) ==
    IF lines = <<>> THEN <<list, streams>>
    ELSE LET l2 == NextStreamList(list, Head(lines))
         IN  ReadAll(l2, NextStreams(l2, streams, Head(lines)), Tail(lines))

\* --------------------------------------------- the stat tables (104-130)
\* the key with group id and signature id exchanged
SigKeySidFirst(gid, sid, rev) == sid \o <<Colon>> \o gid \o <<Colon>> \o rev

\* "{}:{}:{}".format(gid, sid, rev)
SigKey(gid, sid, rev) == gid \o <<Colon>> \o sid \o <<Colon>> \o rev

\* sig in statsTable
HasSig(table, sig) == \E i \in 1..Len(table) : table[i].sig = sig

\* the floats one matching line appends, by field
RowOf(g) ==
    [rank |-> Float(g[1]), checks |-> Float(g[5]), matches |-> Float(g[6]),
     alerts |-> Float(g[7]), ms |-> Float(g[8]), ac |-> Float(g[9]),
     am |-> Float(g[10]), an |-> Float(g[11]), dis |-> Float(g[12])]

\* lines 106-130 for one line of a stream
AddLine(table, line) ==
    LET g == scanStatLine(line)
    IN  IF g = <<>> THEN table
        ELSE LET sig == SigKey(g[3], g[2], g[4])
                 row == RowOf(g)
                 t0  == IF HasSig(table, sig) THEN table
                        ELSE Append(table,
                               [sig |-> sig, rank |-> <<>>, checks |-> <<>>,
                                matches |-> <<>>, alerts |-> <<>>, ms |-> <<>>,
                                ac |-> <<>>, am |-> <<>>, an |-> <<>>,
                                dis |-> <<>>])
             IN  [i \in 1..Len(t0) |->
                    IF t0[i].sig = sig
                    THEN [sig |-> sig,
                          rank |-> Append(t0[i].rank, row.rank),
                          checks |-> Append(t0[i].checks, row.checks),
                          matches |-> Append(t0[i].matches, row.matches),
                          alerts |-> Append(t0[i].alerts, row.alerts),
                          ms |-> Append(t0[i].ms, row.ms),
                          ac |-> Append(t0[i].ac, row.ac),
                          am |-> Append(t0[i].am, row.am),
                          an |-> Append(t0[i].an, row.an),
                          dis |-> Append(t0[i].dis, row.dis)]
                    ELSE t0[i]]

RECURSIVE AddLines(_, _)
\* for line in logStreams[k]
AddLines(table, lines) ==
    IF lines = <<>> THEN table
    ELSE AddLines(AddLine(table, Head(lines)), Tail(lines))

RECURSIVE ParseTables(_, _)
\* for k in logStreams
ParseTables(table, streams) ==
    IF streams = <<>> THEN table
    ELSE ParseTables(AddLines(table, Head(streams).lines), Tail(streams))

\* ------------------------------------------------ the averages (133-148)
\* round(sum(l) / len(l), 1)
Mean1(l) == Round1(Sum(l), Len(l))

\* avgStatsTable
CalcAverages(table) ==
    [i \in 1..Len(table) |->
        [sig |-> table[i].sig,
         rank |-> Mean1(table[i].rank), checks |-> Mean1(table[i].checks),
         matches |-> Mean1(table[i].matches), alerts |-> Mean1(table[i].alerts),
         ms |-> Mean1(table[i].ms), ac |-> Mean1(table[i].ac),
         am |-> Mean1(table[i].am), an |-> Mean1(table[i].an),
         dis |-> Mean1(table[i].dis)]]

\* -------------------------------------------------- the report (151-168)
\* the entry put at the head of the list, whatever its rank
InsertByRankFront(s, e) == <<e>> \o s

\* one entry put into a list sorted by rank, behind the entries of equal rank
InsertByRank(s, e) ==
    LET n == Cardinality({i \in 1..Len(s) : s[i].rank <= e.rank})
    IN  SubSeq(s, 1, n) \o <<e>> \o SubSeq(s, n + 1, Len(s))

RECURSIVE SortByRank(_)
\* sorted(avgStatsTable, key=...rank): a stable sort
SortByRank(s) ==
    IF s = <<>> THEN <<>>
    ELSE InsertByRank(SortByRank(SubSeq(s, 1, Len(s) - 1)), s[Len(s)])

\* the keys in report order
sorted_keys(avg) == LET s == SortByRank(avg) IN [i \in 1..Len(s) |-> s[i].sig]

RECURSIVE Split(_)
\* k.split(":")
Split(k) ==
    IF \E i \in 1..Len(k) : k[i] = Colon
    THEN LET c == CHOOSE i \in 1..Len(k) :
                    k[i] = Colon /\ \A j \in 1..(i - 1) : k[j] # Colon
         IN  <<SubSeq(k, 1, c - 1)>> \o Split(SubSeq(k, c + 1, Len(k)))
    ELSE <<k>>

\* avgStatsTable[k]
Lookup(avg, k) == avg[CHOOSE i \in 1..Len(avg) : avg[i].sig = k]

RECURSIVE NatLen(_)
\* len(str(n))
NatLen(n) == IF n < 10 THEN 1 ELSE 1 + NatLen(n \div 10)

\* "{:>w}".format(v) for a text of n characters: the padding and the value
Fmt(w, n, v) == [pad |-> IF w > n THEN w - n ELSE 0, v |-> v]

\* a float of x tenths in a column of width w
FmtFloat(w, x) == Fmt(w, NatLen(x \div 10) + 2, x)

\* a captured text in a column of width w
FmtText(w, t) == Fmt(w, Len(t), t)

\* len(OUTPUT_HEADER.format(n))
HdrLen(n) == 63 + NatLen(n)

OUTPUT_HEADINGS ==
    <<"Num", "SID", "GID", "Rev", "Checks", "Matches", "Alerts", "Microsecs",
      "Avg/Check", "Avg/Match", "Avg/Nonmatch", "dis">>

\* len(hdr) for hdr in OUTPUT_HEADINGS
HeadingLen == <<3, 3, 3, 3, 6, 7, 6, 9, 9, 9, 12, 3>>

\* the column widths of OUTPUT_FORMAT
Widths == <<6, 8, 3, 3, 11, 11, 9, 19, 9, 9, 12, 9>>

\* one data line of the report, lines 164-168
DataRow(avg, k) ==
    LET p    == Split(k)
        gid  == p[1]
        sid  == p[2]
        rev  == p[3]
        vals == Lookup(avg, k)
    IN  [t |-> "row", n |-> 0,
         cols |-> <<FmtFloat(6, vals.rank), FmtText(8, sid), FmtText(3, gid),
                    FmtText(3, rev), FmtFloat(11, vals.checks),
                    FmtFloat(11, vals.matches), FmtFloat(9, vals.alerts),
                    FmtFloat(19, vals.ms), FmtFloat(9, vals.ac),
                    FmtFloat(9, vals.am), FmtFloat(12, vals.an),
                    FmtFloat(9, vals.dis)>>]

\* everything lines 153-168 print, n being len(logStreams)
Report(avg, n) ==
    LET keys == sorted_keys(avg)
    IN  << [t |-> "header", n |-> n, cols |-> <<>>],
           [t |-> "underline", n |-> HdrLen(n), cols |-> <<>>],
           [t |-> "headings", n |-> 0,
            cols |-> [i \in 1..12 |-> Fmt(Widths[i], HeadingLen[i], OUTPUT_HEADINGS[i])]],
           [t |-> "underlines", n |-> 0,
            cols |-> [i \in 1..12 |-> Fmt(Widths[i], HeadingLen[i], HeadingLen[i])]] >>
        \o [i \in 1..Len(keys) |-> DataRow(avg, keys[i])]

\* the report of a whole input read without error
ReportOf(lines) ==
    LET r == ReadAll(<<>>, <<>>, lines)
    IN  Report(CalcAverages(ParseTables(<<>>, r[2])), Len(r[2]))

\* the header lines counted instead of the streams
ProcessCountList(list, streams) == Len(list)

\* len(logStreams), the N of the report header (line 153)
ProcessCount(list, streams) == Len(streams)

\* ------------------------------------------------------------- the inputs
P1 == <<1>>
P2 == <<2>>

\* "... snort[1]: Rule Profile Statistics (all rules)"
LineH1 == <<Word, TagTok(P1), Hdr>>
\* the same for process 2, with white space at the end
LineH2 == <<TagTok(P2), Hdr, Ws>>
\* "snort[1]: 1 100 1 2 10 5 1 50 5.0 10.0 5.25 0"
LineR1A ==
    <<TagTok(P1), IntTok(<<1>>), IntTok(<<1, 0, 0>>), IntTok(<<1>>), IntTok(<<2>>),
      IntTok(<<1, 0>>), IntTok(<<5>>), IntTok(<<1>>), IntTok(<<5, 0>>),
      DecTok(<<5>>, <<0>>), DecTok(<<1, 0>>, <<0>>), DecTok(<<5>>, <<2, 5>>),
      IntTok(<<0>>)>>
\* "snort[2]: 2 100 1 2 20 15 3 150 7.5 10.0 6.5 0": the same signature
LineR2A ==
    <<TagTok(P2), IntTok(<<2>>), IntTok(<<1, 0, 0>>), IntTok(<<1>>), IntTok(<<2>>),
      IntTok(<<2, 0>>), IntTok(<<1, 5>>), IntTok(<<3>>), IntTok(<<1, 5, 0>>),
      DecTok(<<7>>, <<5>>), DecTok(<<1, 0>>, <<0>>), DecTok(<<6>>, <<5>>),
      IntTok(<<0>>)>>
\* "snort[2]: 1 200 1 1 4 2 0 8 2.0 4.0 0.0 1": another signature, rank 1 too
LineR2B ==
    <<TagTok(P2), IntTok(<<1>>), IntTok(<<2, 0, 0>>), IntTok(<<1>>), IntTok(<<1>>),
      IntTok(<<4>>), IntTok(<<2>>), IntTok(<<0>>), IntTok(<<8>>),
      DecTok(<<2>>, <<0>>), DecTok(<<4>>, <<0>>), DecTok(<<0>>, <<0>>),
      IntTok(<<1>>)>>
\* "snort[1]: 3 0100 1 2 6 3 1 9 1.5 3.0 0.75 0": signature id with a leading zero
LineR1Z ==
    <<TagTok(P1), IntTok(<<3>>), IntTok(<<0, 1, 0, 0>>), IntTok(<<1>>), IntTok(<<2>>),
      IntTok(<<6>>), IntTok(<<3>>), IntTok(<<1>>), IntTok(<<9>>),
      DecTok(<<1>>, <<5>>), DecTok(<<3>>, <<0>>), DecTok(<<0>>, <<7, 5>>),
      IntTok(<<0>>)>>
\* "snort[2]: 4 300 3 1 7 1 0 2 0.25 2.0 0.0 0 extra": a thirteenth field
LineX13 ==
    <<TagTok(P2), IntTok(<<4>>), IntTok(<<3, 0, 0>>), IntTok(<<3>>), IntTok(<<1>>),
      IntTok(<<7>>), IntTok(<<1>>), IntTok(<<0>>), IntTok(<<2>>),
      DecTok(<<0>>, <<2, 5>>), DecTok(<<2>>, <<0>>), DecTok(<<0>>, <<0>>),
      IntTok(<<0>>), Word>>
\* "snort[1]: 5 400 1 1 3 1 0 2 0.5 2.0 0.0 2.5": a decimal as twelfth field
LineXDec ==
    <<TagTok(P1), IntTok(<<5>>), IntTok(<<4, 0, 0>>), IntTok(<<1>>), IntTok(<<1>>),
      IntTok(<<3>>), IntTok(<<1>>), IntTok(<<0>>), IntTok(<<2>>),
      DecTok(<<0>>, <<5>>), DecTok(<<2>>, <<0>>), DecTok(<<0>>, <<0>>),
      DecTok(<<2>>, <<5>>)>>
\* "snort[1]: 6 700 1 1 3 1 0 2 0.5 2.0 0.0 2abc": a twelfth field of digits
\* and letters
LineXMix ==
    <<TagTok(P1), IntTok(<<6>>), IntTok(<<7, 0, 0>>), IntTok(<<1>>), IntTok(<<1>>),
      IntTok(<<3>>), IntTok(<<1>>), IntTok(<<0>>), IntTok(<<2>>),
      DecTok(<<0>>, <<5>>), DecTok(<<2>>, <<0>>), DecTok(<<0>>, <<0>>),
      MixTok(<<2>>)>>
\* "snort[1]: 1 100 1 2 1 0 0 3 0.25 0.5 0.75 0": the signature of LineR1A
LineR1Q ==
    <<TagTok(P1), IntTok(<<1>>), IntTok(<<1, 0, 0>>), IntTok(<<1>>), IntTok(<<2>>),
      IntTok(<<1>>), IntTok(<<0>>), IntTok(<<0>>), IntTok(<<3>>),
      DecTok(<<0>>, <<2, 5>>), DecTok(<<0>>, <<5>>), DecTok(<<0>>, <<7, 5>>),
      IntTok(<<0>>)>>
\* "snort[2]: 1 500 1 1 10 5 1 50 5.0 10.0 5.25": eleven fields
LineS11 ==
    <<TagTok(P2), IntTok(<<1>>), IntTok(<<5, 0, 0>>), IntTok(<<1>>), IntTok(<<1>>),
      IntTok(<<1, 0>>), IntTok(<<5>>), IntTok(<<1>>), IntTok(<<5, 0>>),
      DecTok(<<5>>, <<0>>), DecTok(<<1, 0>>, <<0>>), DecTok(<<5>>, <<2, 5>>)>>
\* "snort[1]: 1 600 1 1 10 5 1 50 5 10.0 5.25 0": an integer where avg/check is
LineW ==
    <<TagTok(P1), IntTok(<<1>>), IntTok(<<6, 0, 0>>), IntTok(<<1>>), IntTok(<<1>>),
      IntTok(<<1, 0>>), IntTok(<<5>>), IntTok(<<1>>), IntTok(<<5, 0>>),
      IntTok(<<5>>), DecTok(<<1, 0>>, <<0>>), DecTok(<<5>>, <<2, 5>>),
      IntTok(<<0>>)>>
\* "kernel: Rule Profile Statistics (all rules)": no process id
LineNoPid == <<Word, Hdr>>

\* the lines standard input may deliver: headers, rows and other lines of two
\* processes, and a line of no process
Lines == {LineH1, LineH2, LineR1A, LineR2A, LineR2B, LineR1Z, LineW, LineNoPid}

\* the lines standard input may deliver when the row pattern is examined:
\* rows that fit it, rows that nearly fit it
RowLines ==
    {LineH1, LineH2, LineR1A, LineR1Z, LineX13, LineXDec, LineXMix, LineS11,
     LineW}

\* the lines standard input may deliver when the means are examined: rows of
\* one signature from two processes
MeanLines == {LineH1, LineH2, LineR1Q, LineR2A}

\* the file names of the command line: none, a readable file, a missing one
NoFile == ""
GoodFile == "messages"
BadFile == "missing"

\* the lines of the readable file
FileLines == <<LineH1, LineR1A, LineH2, LineR2A>>

\* ------------------------------------------------------------ the program
Init ==
    /\ pc = "open"
    /\ fn \in {NoFile, GoodFile, BadFile}
    /\ input = <<>>
    /\ fh = "unbound"
    /\ logStreamList = <<>>
    /\ logStreams = <<>>
    /\ statsTable = <<>>
    /\ avgStatsTable = <<>>
    /\ out = <<>>
    /\ err = <<>>
    /\ exc = "none"

\* lines 72-78
Open ==
    /\ pc = "open"
    /\ pc' = "read"
    /\ IF fn = NoFile THEN fh' = "stdin" /\ err' = err
       ELSE IF fn = GoodFile THEN fh' = "file" /\ err' = err
       ELSE fh' = fh /\ err' = Append(err, <<"Error opening", fn>>)
    /\ UNCHANGED <<fn, input, logStreamList, logStreams, statsTable,
                   avgStatsTable, out, exc>>

\* line 89 with fh never assigned
ReadUnbound ==
    /\ pc = "read"
    /\ fh = "unbound"
    /\ pc' = "raised"
    /\ exc' = "UnboundLocalError"
    /\ UNCHANGED <<fn, input, fh, logStreamList, logStreams, statsTable,
                   avgStatsTable, out, err>>

\* the lines fh may yield next, L being what standard input may deliver and
\* max the longest input
NextLines(L, max) ==
    IF fh = "stdin" THEN (IF Len(input) < max THEN L ELSE {})
    ELSE IF fh = "file" /\ Len(input) < Len(FileLines)
         THEN {FileLines[Len(input) + 1]}
    ELSE {}

\* one turn of the loop of lines 89-99
ReadFrom(L, max) ==
    /\ pc = "read"
    /\ \E line \in NextLines(L, max) :
         /\ input' = Append(input, line)
         /\ logStreamList' = NextStreamList(logStreamList, line)
         /\ logStreams' = NextStreams(logStreamList', logStreams, line)
    /\ UNCHANGED <<pc, fn, fh, statsTable, avgStatsTable, out, err, exc>>

ReadLine == ReadFrom(Lines, MaxLines)

ReadRowLine == ReadFrom(RowLines, MaxLines)

ReadMeanLine == ReadFrom(MeanLines, MaxMeanLines)

\* the input is exhausted: lines 101-170 build the tables and print the report
Finish ==
    /\ pc = "read"
    /\ fh = "stdin" \/ (fh = "file" /\ Len(input) = Len(FileLines))
    /\ statsTable' = ParseTables(<<>>, logStreams)
    /\ avgStatsTable' = CalcAverages(statsTable')
    /\ out' = Report(avgStatsTable', ProcessCount(logStreamList, logStreams))
    /\ pc' = "done"
    /\ UNCHANGED <<fn, input, fh, logStreamList, logStreams, err, exc>>

Next ==
    \/ Open
    \/ ReadUnbound
    \/ ReadLine
    \/ Finish

Spec == Init /\ [][Next]_vars

NextRows ==
    \/ Open
    \/ ReadUnbound
    \/ ReadRowLine
    \/ Finish

\* the same program reading row lines
SpecRows == Init /\ [][NextRows]_vars

NextMeans ==
    \/ Open
    \/ ReadUnbound
    \/ ReadMeanLine
    \/ Finish

\* the same program reading rows of one signature
SpecMeans == Init /\ [][NextMeans]_vars

\* ===================================================== what the claims use
\* the input is consumed and the report printed
AfterRead == pc = "done"

Last(s) == s[Len(s)]

\* the process id of a line, <<>> for none
PidOf(line) == scanPid(line)

\* the process ids with a header line among the lines
Eligible(lines) ==
    {PidOf(lines[i])[1] :
        i \in {j \in 1..Len(lines) : PidOf(lines[j]) # <<>> /\ scanHeader(lines[j])}}

\* the retained lines of process p
StreamOf(p) == logStreams[CHOOSE i \in 1..Len(logStreams) : logStreams[i].pid = p].lines

RECURSIVE Bearing(_, _, _)
\* the lines of process p from position from on, in order, right-stripped
Bearing(p, lines, from) ==
    IF from > Len(lines) THEN <<>>
    ELSE (IF PidOf(lines[from]) = <<p>> THEN <<rstrip(lines[from])>> ELSE <<>>)
         \o Bearing(p, lines, from + 1)

\* ---------------------------------------------------------------------- C1
\* C1, as stated: when the input is consumed, the stream of every process
\* with a header line holds all the lines of that process, from its first
\* line on, the lines before its first header line included.
C1_AllLinesRetained ==
    AfterRead =>
        \A p \in Eligible(input) :
            HasStream(logStreams, p) /\ StreamOf(p) = Bearing(p, input, 1)

\* ---------------------------------------------------------------------- C2
\* the input without the lines of the processes that never show the header
OnlyEligible(lines) ==
    LET Keep(l) == PidOf(l) = <<>> \/ PidOf(l)[1] \in Eligible(lines)
    IN  SelectSeq(lines, Keep)

\* the number of rows accumulated in a stats table
TotalRows(table) == Sum([i \in 1..Len(table) |-> Len(table[i].rank)])

\* C2: a process none of whose lines shows the header never has a stream;
\* the stats table, the averages and the report (its process count included)
\* are those of the input without the lines of such processes, and the stats
\* table has no more rows than the processes with a header have row lines.
C2_NoHeaderNoTrace ==
    /\ \A i \in 1..Len(logStreams) : logStreams[i].pid \in Eligible(input)
    /\ AfterRead =>
          LET kept  == ReadAll(<<>>, <<>>, OnlyEligible(input))[2]
              table == ParseTables(<<>>, kept)
              avg   == CalcAverages(table)
          IN  /\ statsTable = table
              /\ avgStatsTable = avg
              /\ out = Report(avg, Len(kept))
              /\ TotalRows(statsTable) <=
                   Cardinality({i \in 1..Len(input) :
                                  /\ PidOf(input[i]) # <<>>
                                  /\ PidOf(input[i])[1] \in Eligible(input)
                                  /\ scanStatLine(input[i]) # <<>>})

\* a row line of a process without header, beside a process that has rows
C2_Witness ==
    /\ pc = "done"
    /\ Len(statsTable) > 0
    /\ \E i \in 1..Len(input) :
          /\ PidOf(input[i]) # <<>>
          /\ PidOf(input[i])[1] \notin Eligible(input)
          /\ scanStatLine(input[i]) # <<>>

\* ---------------------------------------------------------------------- C3
\* lines i and i+1 belong to two different processes that both show the header
Swappable(lines, i) ==
    /\ i < Len(lines)
    /\ PidOf(lines[i]) # <<>> /\ PidOf(lines[i + 1]) # <<>>
    /\ PidOf(lines[i]) # PidOf(lines[i + 1])
    /\ PidOf(lines[i])[1] \in Eligible(lines)
    /\ PidOf(lines[i + 1])[1] \in Eligible(lines)

\* the input with lines i and i+1 exchanged: the interleaving of two processes
\* changed, the lines of each process kept in order.  Every interleaving of
\* the same per-process sequences is reached by such exchanges.
Swap(lines, i) ==
    [j \in 1..Len(lines) |->
        IF j = i THEN lines[i + 1] ELSE IF j = i + 1 THEN lines[i] ELSE lines[j]]

\* the entries of a dictionary, their order forgotten
Entries(d) == {d[i] : i \in 1..Len(d)}

\* two lists hold the same values the same number of times
SameBag(s, t) ==
    /\ Len(s) = Len(t)
    /\ \A v \in Entries(s) :
          Cardinality({i \in 1..Len(s) : s[i] = v})
            = Cardinality({i \in 1..Len(t) : t[i] = v})

\* the stats table of a whole input
StatsOf(lines) == ParseTables(<<>>, ReadAll(<<>>, <<>>, lines)[2])

\* C3, as stated: an input that differs only in the interleaving of the lines
\* of eligible processes gives the same averages and the same report, line
\* for line, rows of equal mean rank in the same order.
C3_SameReport ==
    AfterRead =>
        \A i \in 1..Len(input) :
            Swappable(input, i) =>
                /\ Entries(CalcAverages(StatsOf(Swap(input, i)))) = Entries(avgStatsTable)
                /\ ReportOf(Swap(input, i)) = out

\* C3, amended: an input that differs only in the interleaving of the lines
\* of eligible processes gives the same signatures, for each signature the
\* same values of every field as a multiset, hence (the field sums being
\* exact) the same averages, the same four heading lines and the same set of
\* data rows; rows of equal mean rank may come in another order.
C3_SameReportUpToTies ==
    AfterRead =>
        \A i \in 1..Len(input) :
            Swappable(input, i) =>
                LET t2 == StatsOf(Swap(input, i))
                    o2 == ReportOf(Swap(input, i))
                IN  /\ {e.sig : e \in Entries(t2)} = {e.sig : e \in Entries(statsTable)}
                    /\ \A e \in Entries(statsTable) : \A f \in Entries(t2) :
                          e.sig = f.sig =>
                            /\ SameBag(e.rank, f.rank)
                            /\ SameBag(e.checks, f.checks)
                            /\ SameBag(e.matches, f.matches)
                            /\ SameBag(e.alerts, f.alerts)
                            /\ SameBag(e.ms, f.ms)
                            /\ SameBag(e.ac, f.ac)
                            /\ SameBag(e.am, f.am)
                            /\ SameBag(e.an, f.an)
                            /\ SameBag(e.dis, f.dis)
                    /\ Entries(CalcAverages(t2)) = Entries(avgStatsTable)
                    /\ Len(o2) = Len(out)
                    /\ SubSeq(o2, 1, 4) = SubSeq(out, 1, 4)
                    /\ Entries(SubSeq(o2, 5, Len(o2))) = Entries(SubSeq(out, 5, Len(out)))
                    /\ \A j \in 5..(Len(o2) - 1) : o2[j].cols[1].v <= o2[j + 1].cols[1].v

\* two signatures of equal mean rank whose rows change places with the
\* interleaving
C3_Witness ==
    /\ pc = "done"
    /\ \E i \in 1..Len(input) :
          /\ Swappable(input, i)
          /\ ReportOf(Swap(input, i)) # out
          /\ Len(out) >= 6

\* ---------------------------------------------------------------------- C4
\* C4, as stated: with a file that cannot be opened the error is reported
\* with the file name, nothing is raised and the empty report is printed.
C4_EmptyReportAfterOpenError ==
    (fn = BadFile /\ pc # "open") =>
        /\ err = <<<<"Error opening", BadFile>>>>
        /\ exc = "none"
        /\ pc \in {"read", "done"}
        /\ pc = "done" => out = Report(<<>>, 0)

\* ---------------------------------------------------------------------- C5
\* the places <<stream, line>> of the retained lines
Retained ==
    UNION {{<<i, j>> : j \in 1..Len(logStreams[i].lines)} : i \in 1..Len(logStreams)}

\* the retained line at a place
LineAt(x) == logStreams[x[1]].lines[x[2]]

\* the places of the retained lines that are stat rows
RowPlaces == {x \in Retained : scanStatLine(LineAt(x)) # <<>>}

\* the group of the row pattern each averaged field is read from
FieldGroup ==
    [rank |-> 1, checks |-> 5, matches |-> 6, alerts |-> 7, ms |-> 8,
     ac |-> 9, am |-> 10, an |-> 11, dis |-> 12]

RECURSIVE PlaceSum(_, _)
\* the sum, in quarters, of group g of the stat rows at the places S
PlaceSum(S, g) ==
    IF S = {} THEN 0
    ELSE LET x == CHOOSE y \in S : TRUE
         IN  Float(scanStatLine(LineAt(x))[g]) + PlaceSum(S \ {x}, g)

\* t tenths is the mean of q quarters over n values, rounded to one decimal
IsMean1(t, q, n) ==
    /\ n > 0
    /\ 2 * (4 * n * t - 10 * q) <= 4 * n
    /\ 2 * (10 * q - 4 * n * t) <= 4 * n

\* the places of the stat rows with signature key k
PlacesOfKey(k) ==
    {x \in RowPlaces :
        LET g == scanStatLine(LineAt(x)) IN SigKey(g[3], g[2], g[4]) = k}

\* C5: every field of every aggregate record is the mean, rounded to one
\* decimal, of that field over all the stat rows of that signature in all the
\* retained streams, each row counted once; with one row it is that row's
\* value rounded to one decimal.
C5_MeanOfAllRows ==
    AfterRead =>
        \A e \in Entries(avgStatsTable) :
            LET S == PlacesOfKey(e.sig)
            IN  \A f \in DOMAIN FieldGroup :
                    IsMean1(e[f], PlaceSum(S, FieldGroup[f]), Cardinality(S))

\* a signature averaged over five rows of two streams, with a mean avg/check
\* halfway between two tenths that no double holds exactly
C5_Witness ==
    /\ pc = "done"
    /\ \E e \in Entries(avgStatsTable) :
          LET S == PlacesOfKey(e.sig)
              q == PlaceSum(S, 9)
              n == Cardinality(S)
          IN  /\ \E x, y \in S : x[1] # y[1]
              /\ n = 5
              /\ 2 * ((10 * q) % (4 * n)) = 4 * n
              /\ ((10 * q) \div (2 * n)) % 5 # 0

\* ---------------------------------------------------------------------- C6
\* the signature keys of the stat rows of the retained streams
ObservedSigs ==
    {SigKey(scanStatLine(LineAt(x))[3], scanStatLine(LineAt(x))[2],
            scanStatLine(LineAt(x))[4]) : x \in RowPlaces}

\* the data rows of the report
DataRows == SubSeq(out, 5, Len(out))

\* the signature key a data row shows in its SID, GID and Rev columns
RowSig(r) == SigKey(r.cols[3].v, r.cols[2].v, r.cols[4].v)

\* C6: the data rows are in non-decreasing order of mean rank, and there is
\* exactly one data row for each signature of the retained streams: none when
\* no stream has a stat row.
C6_SortedOnePerSignature ==
    AfterRead =>
        /\ \A j \in 1..(Len(DataRows) - 1) :
              DataRows[j].cols[1].v <= DataRows[j + 1].cols[1].v
        /\ {RowSig(DataRows[j]) : j \in 1..Len(DataRows)} = ObservedSigs
        /\ Len(DataRows) = Cardinality(ObservedSigs)
        /\ \A j \in 1..Len(DataRows) : DataRows[j].t = "row"
        /\ RowPlaces = {} => Len(out) = 4

\* a report with rows of different mean rank, the higher rank met first
C6_Witness ==
    /\ pc = "done"
    /\ Len(DataRows) >= 2
    /\ DataRows[1].cols[1].v < DataRows[2].cols[1].v
    /\ Len(statsTable) >= 2
    /\ Sum(statsTable[1].rank) * Len(statsTable[2].rank)
         > Sum(statsTable[2].rank) * Len(statsTable[1].rank)

\* ---------------------------------------------------------------------- C7
\* C7: the N of "across N processes" is the number of distinct process ids
\* with at least one header line.
C7_ProcessCount ==
    AfterRead =>
        /\ out[1].t = "header"
        /\ out[1].n = Cardinality(Eligible(input))

\* a process whose header line comes twice and that has no stat row
C7_Witness ==
    /\ pc = "done"
    /\ \E i, j \in 1..Len(input) :
          /\ i < j
          /\ PidOf(input[i]) # <<>> /\ PidOf(input[i]) = PidOf(input[j])
          /\ scanHeader(input[i]) /\ scanHeader(input[j])
          /\ \A x \in RowPlaces : logStreams[x[1]].pid # PidOf(input[i])[1]
    /\ out[1].n = 1

\* ---------------------------------------------------------------------- C8
\* the texts <<gid, sid, rev>> a stat row is keyed by
TextsAt(x) ==
    LET g == scanStatLine(LineAt(x)) IN <<g[3], g[2], g[4]>>

\* the same as integers
NumbersAt(x) ==
    LET g == scanStatLine(LineAt(x))
    IN  <<DigitsToNat(g[3]), DigitsToNat(g[2]), DigitsToNat(g[4])>>

\* every data row shows, as SID, GID and Rev, the texts of the stat rows it
\* averages: its Checks column is the mean of their checks
RowsShowTheirSignature ==
    \A j \in 1..Len(DataRows) :
        LET r == DataRows[j]
            S == {x \in RowPlaces :
                    TextsAt(x) = <<r.cols[3].v, r.cols[2].v, r.cols[4].v>>}
        IN  /\ S # {}
            /\ IsMean1(r.cols[1].v, PlaceSum(S, 1), Cardinality(S))
            /\ IsMean1(r.cols[5].v, PlaceSum(S, 5), Cardinality(S))

\* C8, as stated: two stat rows are accumulated into one record exactly when
\* their group id, signature id and revision are equal as integers, and each
\* data row shows the ids of the rows it averages.
C8_KeyedByIntegers ==
    AfterRead =>
        /\ Len(statsTable) = Cardinality({NumbersAt(x) : x \in RowPlaces})
        /\ \A e \in Entries(statsTable) :
              Len(e.rank) =
                Cardinality({x \in RowPlaces :
                   NumbersAt(x) = <<DigitsToNat(Split(e.sig)[1]),
                                    DigitsToNat(Split(e.sig)[2]),
                                    DigitsToNat(Split(e.sig)[3])>>})
        /\ RowsShowTheirSignature

\* C8, amended: two stat rows are accumulated into one record exactly when
\* the texts of their group id, signature id and revision are equal (ids that
\* differ in leading zeros are kept apart), and each data row shows as SID,
\* GID and Rev the 2nd, 3rd and 4th field of the rows it averages, recovered
\* by splitting the key "gid:sid:rev".
C8_KeyedByText ==
    AfterRead =>
        /\ Len(statsTable) = Cardinality({TextsAt(x) : x \in RowPlaces})
        /\ \A e \in Entries(statsTable) :
              /\ Len(Split(e.sig)) = 3
              /\ Len(e.rank) = Cardinality({x \in RowPlaces : TextsAt(x) = Split(e.sig)})
        /\ RowsShowTheirSignature

\* rows whose ids are equal as integers and differ as texts, and rows that
\* share one record
C8_Witness ==
    /\ pc = "done"
    /\ \E x, y \in RowPlaces : NumbersAt(x) = NumbersAt(y) /\ TextsAt(x) # TextsAt(y)
    /\ Len(DataRows) >= 2

\* ---------------------------------------------------------------------- C9
\* the process id tag of the line is followed by exactly twelve fields, eight
\* integers, three decimals and an integer, and by nothing else
ExactlyTwelve(line) ==
    \E i \in 1..Len(line) :
        /\ line[i].k = "tag"
        /\ Len(line) = i + 12
        /\ \A j \in (i + 1)..(i + 8) : line[j].k = "int"
        /\ \A j \in (i + 9)..(i + 11) : line[j].k = "dec"
        /\ line[i + 12].k = "int"

\* some tag of the line is followed by eight integers, three decimals and a
\* field that begins with digits, whatever comes after
TwelveThenAny(line) ==
    \E i \in 1..Len(line) :
        /\ line[i].k = "tag"
        /\ Len(line) >= i + 12
        /\ \A j \in (i + 1)..(i + 8) : line[j].k = "int"
        /\ \A j \in (i + 9)..(i + 11) : line[j].k = "dec"
        /\ line[i + 12].k \in {"int", "dec", "mix"}

\* the retained streams without the lines that fail the test
StreamsWith(Test(_)) ==
    [i \in 1..Len(logStreams) |->
        [pid |-> logStreams[i].pid, lines |-> SelectSeq(logStreams[i].lines, Test)]]

\* C9, as stated: a retained line gives a stat row only if exactly twelve
\* fields of the right types follow its process id; lines with fewer fields,
\* with more fields or with a field of another type change no table.
C9_ExactlyTwelveFields ==
    AfterRead =>
        /\ TotalRows(statsTable) = Cardinality({x \in Retained : ExactlyTwelve(LineAt(x))})
        /\ statsTable = ParseTables(<<>>, StreamsWith(ExactlyTwelve))

\* C9, amended: a retained line gives a stat row only if a process id tag in
\* it is followed by twelve space-separated fields, eight integers, three
\* decimals and a twelfth that begins with digits; what follows those digits
\* (a fraction, further fields) is ignored.  A line with fewer fields, with a
\* wrong type among the first eleven or no digit at the start of the twelfth
\* is skipped and changes no table.
C9_TwelveLeadingFields ==
    AfterRead =>
        /\ TotalRows(statsTable) = Cardinality({x \in Retained : TwelveThenAny(LineAt(x))})
        /\ statsTable = ParseTables(<<>>, StreamsWith(TwelveThenAny))

\* a retained row with a thirteenth field or a decimal twelfth field gave a
\* stat row, beside a retained line of numbers that gave none
C9_Witness ==
    /\ pc = "done"
    /\ \E x \in RowPlaces : ~ExactlyTwelve(LineAt(x))
    /\ \E x \in RowPlaces : LineAt(x)[Len(LineAt(x))].k = "mix"
    /\ \E x \in Retained \ RowPlaces : Len(LineAt(x)) >= 12
    /\ Len(statsTable) >= 1

\* --------------------------------------------------------------------- C10
\* every stream holds lines of its own process, in input order: it is a tail
\* of the lines of that process, right-stripped
C10_OwnLinesInOrder ==
    \A i \in 1..Len(logStreams) :
        /\ \A j \in 1..Len(logStreams[i].lines) :
              PidOf(logStreams[i].lines[j]) = <<logStreams[i].pid>>
        /\ \E k \in 1..Len(input) :
              logStreams[i].lines = Bearing(logStreams[i].pid, input, k)
        /\ \A k \in 1..Len(logStreams) : logStreams[k].pid = logStreams[i].pid => k = i

\* a step changes a stream only by appending the line just read, a new stream
\* starts with that line, eligibility is never lost, and a line without
\* process id changes nothing
C10_StepAppends ==
    /\ Len(logStreams') >= Len(logStreams)
    /\ Len(logStreams') <= Len(logStreams) + 1
    /\ Entries(logStreamList) \subseteq Entries(logStreamList')
    /\ \A i \in 1..Len(logStreams) :
          /\ logStreams'[i].pid = logStreams[i].pid
          /\ \/ logStreams'[i].lines = logStreams[i].lines
             \/ /\ input' = Append(input, Last(input'))
                /\ PidOf(Last(input')) = <<logStreams[i].pid>>
                /\ logStreams'[i].lines = Append(logStreams[i].lines, rstrip(Last(input')))
    /\ Len(logStreams') = Len(logStreams) + 1 =>
          /\ input' = Append(input, Last(input'))
          /\ Last(logStreams').lines = <<rstrip(Last(input'))>>
          /\ PidOf(Last(input')) = <<Last(logStreams').pid>>
    /\ (input' # input /\ PidOf(Last(input')) = <<>>) =>
          /\ logStreams' = logStreams
          /\ logStreamList' = logStreamList

\* C10: at every step of the read loop each stream holds only lines of its
\* own process, in input order; a step changes a stream only by appending the
\* current line (right-stripped) at its end, an eligible process stays
\* eligible, and a line without process id changes no stream and not the
\* eligible set.
C10_AppendOnly == [](C10_OwnLinesInOrder) /\ [][C10_StepAppends]_vars

\* a line without process id was just read while a stream holds two lines
C10_Witness ==
    /\ pc = "read"
    /\ input # <<>>
    /\ PidOf(Last(input)) = <<>>
    /\ \E i \in 1..Len(logStreams) : Len(logStreams[i].lines) >= 2

====
